---- MODULE Spec2Model ----
(***************************************************************************)
(* Model of interferon (src/main.rs): a Monte Carlo simulator of the peak  *)
(* simultaneous overlap of periodic ON/OFF gates.                          *)
(*                                                                         *)
(* Time.  Every f64 time of the program (durations, start times, sample    *)
(* instants) is modelled as an integer number of TICKS of a quarter of a   *)
(* second, so that the 0.5 s sample step is 2 ticks and start times can    *)
(* fall between sample instants.  Arithmetic on ticks is exact: the        *)
(* rounding of f64 is outside the model.                                   *)
(***************************************************************************)
EXTENDS Integers, Sequences, FiniteSets, Bags

VARIABLES
    pc,            \* position of the running function
    gates,         \* run_gates: `gates` (the population of the scenario)
    base,          \* main: `gates` returned by run_random
    scenario,      \* main: 0 = run_random, k > 0 = k-th percentage
    percentage,    \* run_with_coherency: `percentage`, in tenths
    groups_count,  \* run_with_coherency: `groups_count`
    maxPeriod,     \* run_gates: `max_period`
    t,             \* run_gates: `t` of the sample window loop
    points,        \* run_gates: `points`
    trial,         \* run_gates: completed iterations of the trial loop
    idx,           \* randomize_start_time: gates already rewritten
    segs,          \* evaluate_max_on_range: the fork-join tasks in flight
    max_val,       \* run_gates: `max_val`
    histogram,     \* run_gates: the samples added to `histogram`
    files,         \* the output files: target -> "created" | "complete"
    ret            \* the value returned by the function under pc

vars == <<pc, gates, base, scenario, percentage, groups_count, maxPeriod, t,
          points, trial, idx, segs, max_val, histogram, files, ret>>

(***************************************************************************)
(* Bounds of the model.                                                    *)
(***************************************************************************)
\* durations of the gates given to the functions, in ticks: 0 .. MaxDur
MaxDur == 3
\* times given to calculate_value, in ticks: -MaxT .. MaxT
MaxT == 7
\* start times of the gates given to the functions, in ticks: 0 .. MaxStart
MaxStart == 1
\* gates in a population given to the functions: 0 .. MaxGates
MaxGates == 2
\* sample points given to evaluate_max_on_range: 0 .. MaxPoints of them,
\* each in 0 .. MaxPoint ticks
MaxPoints == 2
MaxPoint == 2
\* JOB_COUNT (1000 in the program): gates generated by run_random
JOB_COUNT == 2
\* CONFIG_COUNT (50000 in the program): trials of one scenario
CONFIG_COUNT == 2
\* the periods new_random_periodic draws, in seconds: MIN_PERIOD ..
\* MAX_PERIOD - 1 (10 .. 19 in the program)
MIN_PERIOD == 2
MAX_PERIOD == 4
\* the integers randomize_start_time draws: 0 .. RandRange - 1 (100000 in
\* the program)
RandRange == 2
\* how many times rayon may split the sample points in two
MaxSplitDepth == 1
\* populations given to run_gates directly: 0 .. MaxRunGates gates with
\* durations of 1 or MaxRunDur ticks
MaxRunGates == 2
MaxRunDur == 4
\* populations given to run_with_coherency directly: 0 .. MaxPop gates
MaxPop == 4
\* group counts given to run_with_coherency: 1 .. MaxGroups
MaxGroups == 2

(***************************************************************************)
(* Units and helpers.                                                      *)
(***************************************************************************)
\* seconds to ticks
Sec(n) == 4 * n

\* the sample step `t += 0.5`, in ticks
Step == 2

\* sequences over S of length 0 .. n
SeqUpTo(S, n) == UNION { [1..k -> S] : k \in 0..n }

\* f64::abs
Abs(x) == IF x < 0 THEN -x ELSE x

\* the f64 `%` of Rust: truncated remainder, sign of the dividend
Rem(a, n) == IF a >= 0 THEN a % Abs(n) ELSE -((-a) % Abs(n))

\* rem_euclid as the plain `%`: a negative remainder is not corrected
rem_euclid_trunc(a, n) == Rem(a, n)

\* f64::rem_euclid: r = self % rhs; if r < 0.0 { r + rhs.abs() } else { r }
rem_euclid(a, n) ==
    LET r == Rem(a, n) IN IF r < 0 THEN r + Abs(n) ELSE r

\* struct Gate
Gate(h, l, s) == [high_duration |-> h, low_duration |-> l, start_time |-> s]

\* Gate::period
period(g) == g.low_duration + g.high_duration

\* calculate_value with `phase <= high_duration`
calculate_value_le(g, tt) ==
    IF period(g) = 0
    THEN 0
    ELSE LET phase == Abs(rem_euclid(tt - g.start_time, period(g)))
         IN  IF phase <= g.high_duration THEN 1 ELSE 0

\* Gate::calculate_value.  A period of 0 makes rem_euclid NaN, and NaN <
\* high_duration is false.
calculate_value(g, tt) ==
    IF period(g) = 0
    THEN 0
    ELSE LET phase == Abs(rem_euclid(tt - g.start_time, period(g)))
         IN  IF phase < g.high_duration THEN 1 ELSE 0

\* the comparator reversed
Lesser(a, b) == a < b

\* the comparator given to max_by: partial_cmp, Less when indeterminate
\* (sums and periods are never NaN here)
Greater(a, b) == a > b

\* rayon max_by's choice between two items: a when Greater, else b
max_of(a, b) == IF Greater(a, b) THEN a ELSE b

\* sum::<f64>() of calculate_value over the gates, for one sample point
RECURSIVE sum_at(_, _)
sum_at(gs, tt) ==
    IF gs = <<>> THEN 0
    ELSE calculate_value(Head(gs), tt) + sum_at(Tail(gs), tt)

\* a reduction that keeps the later of two partial results
opt_last(a, b) == IF b = <<>> THEN a ELSE b

\* rayon reduce_with on two partial results; <<>> is None, <<v>> is Some(v)
opt_max(a, b) ==
    IF a = <<>> THEN b
    ELSE IF b = <<>> THEN a
    ELSE <<max_of(a[1], b[1])>>

\* max_by over the items of a sequence, folded from the left
RECURSIVE fold_max(_, _)
fold_max(acc, s) ==
    IF s = <<>> THEN acc ELSE fold_max(opt_max(acc, <<Head(s)>>), Tail(s))

\* Option::unwrap_or(0.0)
unwrap_or_0(o) == IF o = <<>> THEN 0 ELSE o[1]

\* Gate::max_period
max_period(gs) ==
    unwrap_or_0(fold_max(<<>>, [k \in 1..Len(gs) |-> period(gs[k])]))

\* Gate::evaluate_max_on_range, as the value it returns
evaluate_max_on_range(gs, pts) ==
    unwrap_or_0(fold_max(<<>>, [k \in 1..Len(pts) |-> sum_at(gs, pts[k])]))

\* that loop breaking on `t > max_period * 2.0`
RECURSIVE window_gt(_, _, _)
window_gt(tt, mp, pts) ==
    IF tt > mp * 2 THEN pts ELSE window_gt(tt + Step, mp, Append(pts, tt))

\* the loop of run_gates that fills `points`, from `t` on: break when
\* t >= max_period * 2.0, else push t and add 0.5
RECURSIVE window(_, _, _)
window(tt, mp, pts) ==
    IF tt >= mp * 2 THEN pts ELSE window(tt + Step, mp, Append(pts, tt))

\* `t` when that loop breaks
RECURSIVE window_end(_, _)
window_end(tt, mp) == IF tt >= mp * 2 THEN tt ELSE window_end(tt + Step, mp)

(***************************************************************************)
(* Population construction.                                                *)
(***************************************************************************)
\* f64::ceil of n / d, for n >= 0 and d > 0
CeilDiv(n, d) == (n + d - 1) \div d

\* the values of rand::random::<f64>() the model draws, in halves: 0, 0.5
RandomHalves == {0, 1}

\* Gate::new_random_periodic with HIGH_RATIO = 0.5, for the drawn period p
\* (seconds) and the drawn rand::random r / 2: low_duration = (1 - 0.5) * p,
\* high_duration = p - low_duration, start_time = rand * p, each rounded up
\* to a whole second
new_random_periodic(p, r) ==
    Gate(Sec(CeilDiv(p, 2)), Sec(CeilDiv(p, 2)), Sec(CeilDiv(r * p, 2)))

\* every gate new_random_periodic(MAX_PERIOD, HIGH_RATIO) can return
RandomGates ==
    { new_random_periodic(p, r) :
        p \in MIN_PERIOD..(MAX_PERIOD - 1), r \in RandomHalves }

\* the percentages of main, in tenths: [0.1, 0.2, 0.5, 1.0]
Percentages == <<1, 2, 5, 10>>

\* run_with_coherency: `to_drop`
to_drop(gs, pct) == (Len(gs) * pct) \div 10

\* per_group without `if per_group == 0 { per_group = 1 }`
per_group_unchecked(gs, pct, g) == to_drop(gs, pct) \div g

\* run_with_coherency: `per_group`
per_group(gs, pct, g) ==
    IF to_drop(gs, pct) \div g = 0 THEN 1 ELSE to_drop(gs, pct) \div g

\* run_with_coherency: the population given to run_gates; waves[j] is the
\* gate new_random_periodic returns for group j
coherent_population(gs, pct, g, waves) ==
    LET kept == SubSeq(gs, 1, Len(gs) - to_drop(gs, pct))
        n    == per_group(gs, pct, g)
    IN  kept \o [k \in 1..(g * n) |-> waves[((k - 1) \div n) + 1]]

(***************************************************************************)
(* run_gates.                                                              *)
(***************************************************************************)
\* a fork-join task of the parallel iterator: the sample points lo .. hi-1,
\* of which lo .. pos-1 are folded into acc
Seg(lo, hi, pos, acc, depth) ==
    [lo |-> lo, hi |-> hi, pos |-> pos, acc |-> acc, depth |-> depth]

\* a trial loop of one iteration more
TrialsLeftInclusive(n) == n <= CONFIG_COUNT

\* a trial loop of one iteration less
TrialsLeftFewer(n) == n < CONFIG_COUNT - 1

\* the for loop of run_gates has iterations left
TrialsLeft(n) == n < CONFIG_COUNT

\* randomize_start_time has gates left to rewrite
GatesLeft(k, gs) == k < Len(gs)

\* the parallel iterator taken as complete when its first task is
EvalDoneFirst(ss) == ss[1].pos = ss[1].hi

\* the parallel iterator is complete: one task, all its points folded
EvalDone(ss) == Len(ss) = 1 /\ ss[1].pos = ss[1].hi

\* run_gates up to the trial loop: max_period, the histogram, the points
EnterRunGates ==
    /\ pc = "run_gates"
    /\ maxPeriod' = max_period(gates)
    /\ histogram' = EmptyBag
    /\ points' = window(max_period(gates), max_period(gates), <<>>)
    /\ t' = window_end(max_period(gates), max_period(gates))
    /\ trial' = 0
    /\ pc' = "for"
    /\ UNCHANGED <<gates, base, scenario, percentage, groups_count, idx, segs,
                   max_val, files, ret>>

\* the head of `for _ in 0..CONFIG_COUNT`
TrialLoop ==
    /\ pc = "for"
    /\ IF TrialsLeft(trial)
       THEN pc' = "randomize_start_time" /\ idx' = 0
       ELSE pc' = "histogram_to_file" /\ idx' = idx
    /\ UNCHANGED <<gates, base, scenario, percentage, groups_count, maxPeriod,
                   t, points, trial, segs, max_val, histogram, files, ret>>

\* randomize_start_time writing the drawn value to high_duration
RandomizeGateHigh ==
    /\ pc = "randomize_start_time"
    /\ GatesLeft(idx, gates)
    /\ \E k \in 0..(RandRange - 1) :
         gates' = [gates EXCEPT ![idx + 1].high_duration =
                       (k * period(gates[idx + 1])) \div RandRange]
    /\ idx' = idx + 1
    /\ UNCHANGED <<pc, base, scenario, percentage, groups_count, maxPeriod, t,
                   points, trial, segs, max_val, histogram, files, ret>>

\* one iteration of `for g in gates` of randomize_start_time
RandomizeGate ==
    /\ pc = "randomize_start_time"
    /\ GatesLeft(idx, gates)
    /\ \E k \in 0..(RandRange - 1) :
         gates' = [gates EXCEPT ![idx + 1].start_time =
                       (k * period(gates[idx + 1])) \div RandRange]
    /\ idx' = idx + 1
    /\ UNCHANGED <<pc, base, scenario, percentage, groups_count, maxPeriod, t,
                   points, trial, segs, max_val, histogram, files, ret>>

\* randomize_start_time returns; evaluate_max_on_range starts the parallel
\* iterator over the points
Fork ==
    /\ pc = "randomize_start_time"
    /\ ~GatesLeft(idx, gates)
    /\ segs' = <<Seg(1, Len(points) + 1, 1, <<>>, 0)>>
    /\ pc' = "evaluate_max_on_range"
    /\ UNCHANGED <<gates, base, scenario, percentage, groups_count, maxPeriod,
                   t, points, trial, idx, max_val, histogram, files, ret>>

\* rayon splits a task that has not started at the middle of its points
Split ==
    /\ pc = "evaluate_max_on_range"
    /\ \E i \in 1..Len(segs) :
         LET s   == segs[i]
             mid == s.lo + ((s.hi - s.lo) \div 2)
         IN  /\ s.pos = s.lo
             /\ s.hi - s.lo >= 2
             /\ s.depth < MaxSplitDepth
             /\ segs' = SubSeq(segs, 1, i - 1)
                        \o <<Seg(s.lo, mid, s.lo, <<>>, s.depth + 1),
                             Seg(mid, s.hi, mid, <<>>, s.depth + 1)>>
                        \o SubSeq(segs, i + 1, Len(segs))
    /\ UNCHANGED <<pc, gates, base, scenario, percentage, groups_count,
                   maxPeriod, t, points, trial, idx, max_val, histogram, files,
                   ret>>

\* a worker maps the next point of a task to its sum over the gates and
\* folds it into the task's maximum
MapPoint ==
    /\ pc = "evaluate_max_on_range"
    /\ \E i \in 1..Len(segs) :
         LET s == segs[i]
         IN  /\ s.pos < s.hi
             /\ segs' = [segs EXCEPT
                           ![i].acc = opt_max(s.acc, <<sum_at(gates, points[s.pos])>>),
                           ![i].pos = s.pos + 1]
    /\ UNCHANGED <<pc, gates, base, scenario, percentage, groups_count,
                   maxPeriod, t, points, trial, idx, max_val, histogram, files,
                   ret>>

\* two adjacent complete tasks are reduced into one
Reduce ==
    /\ pc = "evaluate_max_on_range"
    /\ \E i \in 1..(Len(segs) - 1) :
         LET a == segs[i]
             b == segs[i + 1]
         IN  /\ a.pos = a.hi
             /\ b.pos = b.hi
             /\ segs' = SubSeq(segs, 1, i - 1)
                        \o <<Seg(a.lo, b.hi, b.hi, opt_max(a.acc, b.acc), 0)>>
                        \o SubSeq(segs, i + 2, Len(segs))
    /\ UNCHANGED <<pc, gates, base, scenario, percentage, groups_count,
                   maxPeriod, t, points, trial, idx, max_val, histogram, files,
                   ret>>

\* the parallel iterator returns: max.unwrap_or(0.0)
Join ==
    /\ pc = "evaluate_max_on_range"
    /\ EvalDone(segs)
    /\ max_val' = unwrap_or_0(segs[1].acc)
    /\ segs' = <<>>
    /\ pc' = "histogram.add"
    /\ UNCHANGED <<gates, base, scenario, percentage, groups_count, maxPeriod,
                   t, points, trial, idx, histogram, files, ret>>

\* histogram.add(max_val as u64); bar.inc(1)
Record ==
    /\ pc = "histogram.add"
    /\ histogram' = histogram (+) SetToBag({max_val})
    /\ trial' = trial + 1
    /\ pc' = "for"
    /\ UNCHANGED <<gates, base, scenario, percentage, groups_count, maxPeriod,
                   t, points, idx, segs, max_val, files, ret>>

\* histogram_to_file: File::create(file)?
CreateFile ==
    /\ pc = "histogram_to_file"
    /\ \/ /\ files' = {f \in files : f[1] # scenario}
                        \cup {<<scenario, "created", 0>>}
          /\ pc' = "to_writer_pretty"
       \/ /\ files' = files
          /\ pc' = "Err"
    /\ UNCHANGED <<gates, base, scenario, percentage, groups_count, maxPeriod,
                   t, points, trial, idx, segs, max_val, histogram, ret>>

\* histogram_to_file: serde_json::to_writer_pretty(f, &buckets)?; the file
\* holds the buckets, of which the model keeps the sum of the counts
WriteFile ==
    /\ pc = "to_writer_pretty"
    /\ \/ /\ files' = {f \in files : f[1] # scenario}
                        \cup {<<scenario, "complete", BagCardinality(histogram)>>}
          /\ pc' = "Ok"
       \/ /\ files' = files
          /\ pc' = "Err"
    /\ UNCHANGED <<gates, base, scenario, percentage, groups_count, maxPeriod,
                   t, points, trial, idx, segs, max_val, histogram, ret>>

RunGatesNext ==
    \/ EnterRunGates \/ TrialLoop \/ RandomizeGate \/ Fork \/ Split
    \/ MapPoint \/ Reduce \/ Join \/ Record \/ CreateFile \/ WriteFile

(***************************************************************************)
(* run_gates applied to bounded populations.                               *)
(***************************************************************************)
RunPopulations ==
    SeqUpTo({ Gate(h, l, 0) : h \in {1, MaxRunDur}, l \in {1, MaxRunDur} },
            MaxRunGates)

InitRun ==
    /\ pc = "run_gates"
    /\ gates \in RunPopulations
    /\ base = <<>> /\ scenario = 0 /\ percentage = 0 /\ groups_count = 0
    /\ maxPeriod = 0 /\ t = 0 /\ points = <<>> /\ trial = 0 /\ idx = 0
    /\ segs = <<>> /\ max_val = 0 /\ histogram = EmptyBag /\ files = {}
    /\ ret = 0

SpecRun == InitRun /\ [][RunGatesNext]_vars

(***************************************************************************)
(* main.                                                                   *)
(***************************************************************************)
Init ==
    /\ pc = "main"
    /\ gates = <<>> /\ base = <<>> /\ scenario = 0 /\ percentage = 0
    /\ groups_count = 0 /\ maxPeriod = 0 /\ t = 0 /\ points = <<>>
    /\ trial = 0 /\ idx = 0 /\ segs = <<>> /\ max_val = 0
    /\ histogram = EmptyBag /\ files = {} /\ ret = 0

\* run_random(JOB_COUNT): generate_n_periodic, then run_gates on a clone
RunRandom ==
    /\ pc = "main"
    /\ base' \in [1..JOB_COUNT -> RandomGates]
    /\ gates' = base'
    /\ pc' = "run_gates"
    /\ UNCHANGED <<scenario, percentage, groups_count, maxPeriod, t, points,
                   trial, idx, segs, max_val, histogram, files, ret>>

\* run_gates returned Ok and its locals are gone: the next percentage of
\* main, with groups = 1; run_with_coherency builds its population and
\* calls run_gates
RunWithCoherency ==
    /\ pc = "Ok"
    /\ scenario < Len(Percentages)
    /\ scenario' = scenario + 1
    /\ percentage' = Percentages[scenario + 1]
    /\ groups_count' = 1
    /\ \E waves \in [1..1 -> RandomGates] :
         gates' = coherent_population(base, Percentages[scenario + 1], 1, waves)
    /\ pc' = "run_gates"
    /\ maxPeriod' = 0 /\ t' = 0 /\ points' = <<>> /\ trial' = 0 /\ idx' = 0
    /\ max_val' = 0 /\ histogram' = EmptyBag
    /\ UNCHANGED <<base, segs, files, ret>>

\* the last run_with_coherency returned Ok: main returns Ok(())
MainReturn ==
    /\ pc = "Ok"
    /\ scenario = Len(Percentages)
    /\ pc' = "exit"
    /\ UNCHANGED <<gates, base, scenario, percentage, groups_count, maxPeriod,
                   t, points, trial, idx, segs, max_val, histogram, files, ret>>

Next == RunRandom \/ RunGatesNext \/ RunWithCoherency \/ MainReturn

Spec == Init /\ [][Next]_vars

(***************************************************************************)
(* The functions of Gate applied to bounded inputs.                        *)
(***************************************************************************)
\* the gates given to the functions
FnGates ==
    { Gate(h, l, s) : h \in 0..MaxDur, l \in 0..MaxDur, s \in 0..MaxStart }

\* the single gate of the scenario example: 1 s high, 9 s low
ExampleGate == Gate(Sec(1), Sec(9), 0)

\* the times of that example: 0.5 s, 5.0 s, 10.5 s
ExampleTimes == {2, Sec(5), Sec(10) + 2}

\* the population of the scenario example: 4 gates, 5 s high, 5 s low
ExamplePopulation == [k \in 1..4 |-> Gate(Sec(5), Sec(5), 0)]

\* the gates of the populations given to the functions
PopGates ==
    { Gate(h, l, s) : h \in 0..MaxDur, l \in 0..1, s \in {0, MaxStart} }

FnPopulations == SeqUpTo(PopGates, MaxGates)

FnPointSets == SeqUpTo(0..MaxPoint, MaxPoints)

\* the variables of run_gates, which the functions leave alone
IdleRun ==
    /\ maxPeriod = 0 /\ trial = 0 /\ idx = 0 /\ segs = <<>> /\ max_val = 0
    /\ histogram = EmptyBag /\ files = {}

\* the variables the functions of Gate leave alone
Idle ==
    /\ base = <<>> /\ scenario = 0 /\ percentage = 0 /\ groups_count = 0
    /\ IdleRun

InitCalculateValue ==
    /\ pc = "call calculate_value"
    /\ \/ gates \in { <<g>> : g \in FnGates } /\ t \in -MaxT..MaxT
       \/ gates = <<ExampleGate>> /\ t \in ExampleTimes
    /\ points = <<>> /\ ret = 0 /\ Idle

InitMaxPeriod ==
    /\ pc = "call max_period"
    /\ gates \in FnPopulations
    /\ t = 0 /\ points = <<>> /\ ret = 0 /\ Idle

InitEvaluate ==
    /\ pc = "call evaluate_max_on_range"
    /\ \/ gates \in FnPopulations /\ points \in FnPointSets
       \/ gates = ExamplePopulation
          /\ points = window(max_period(gates), max_period(gates), <<>>)
    /\ t = 0 /\ ret = 0 /\ Idle

\* a population of n distinct gates
Population(n) == [k \in 1..n |-> Gate(Sec(k), Sec(k), 0)]

InitCoherency ==
    /\ pc = "call run_with_coherency"
    /\ base \in { Population(n) : n \in 0..MaxPop }
    /\ percentage \in 0..10
    /\ groups_count \in 1..MaxGroups
    /\ gates = <<>> /\ scenario = 0 /\ t = 0 /\ points = <<>> /\ ret = 0
    /\ IdleRun

InitFn ==
    InitCalculateValue \/ InitMaxPeriod \/ InitEvaluate \/ InitCoherency

FnUnchanged ==
    UNCHANGED <<gates, base, scenario, percentage, groups_count, maxPeriod, t,
                points, trial, idx, segs, max_val, histogram, files>>

CallCalculateValue ==
    /\ pc = "call calculate_value"
    /\ ret' = calculate_value(gates[1], t)
    /\ pc' = "ret calculate_value"
    /\ FnUnchanged

CallMaxPeriod ==
    /\ pc = "call max_period"
    /\ ret' = max_period(gates)
    /\ pc' = "ret max_period"
    /\ FnUnchanged

CallEvaluate ==
    /\ pc = "call evaluate_max_on_range"
    /\ ret' = evaluate_max_on_range(gates, points)
    /\ pc' = "ret evaluate_max_on_range"
    /\ FnUnchanged

\* run_with_coherency up to its call of run_gates
CallCoherency ==
    /\ pc = "call run_with_coherency"
    /\ \E waves \in [1..groups_count -> RandomGates] :
         gates' = coherent_population(base, percentage, groups_count, waves)
    /\ ret' = Len(gates')
    /\ pc' = "ret run_with_coherency"
    /\ UNCHANGED <<base, scenario, percentage, groups_count, maxPeriod, t,
                   points, trial, idx, segs, max_val, histogram, files>>

NextFn ==
    CallCalculateValue \/ CallMaxPeriod \/ CallEvaluate \/ CallCoherency

SpecFn == InitFn /\ [][NextFn]_vars

AllOn(gs, tt) == \A j \in 1..Len(gs) : calculate_value(gs[j], tt) = 1

\* C2: on n gates and a non-empty sample point set, evaluate_max_on_range
\* never returns more than n, no sample point has a sum above n, and when
\* all n gates are ON at some sample point it returns exactly n.
C2_PeakBounded ==
    (pc = "ret evaluate_max_on_range" /\ points # <<>>) =>
        /\ ret <= Len(gates)
        /\ \A k \in 1..Len(points) : sum_at(gates, points[k]) <= Len(gates)
        /\ (\E k \in 1..Len(points) : AllOn(gates, points[k]))
               => (ret = Len(gates))

\* two gates both ON at the first sample point and not at the second
C2_Witness ==
    /\ pc = "ret evaluate_max_on_range"
    /\ Len(gates) = 2
    /\ Len(points) = 2
    /\ AllOn(gates, points[1])
    /\ sum_at(gates, points[2]) < 2
    /\ ret = 2

\* the population and the run_with_coherency inputs of a state
Dropped == (Len(base) * percentage) \div 10
Copies == IF Dropped \div groups_count = 0 THEN 1 ELSE Dropped \div groups_count

\* C3: run_with_coherency, from a population of size P with drop fraction d
\* and g groups, hands over a population of size
\* P - floor(P*d) + g * max(1, floor(P*d)/g): the floor(P*d) last gates are
\* removed and g groups of max(1, floor(P*d)/g) copies of one freshly
\* generated gate each are appended.
C3_CoherentSize ==
    (pc = "ret run_with_coherency") =>
        LET kept == Len(base) - Dropped
        IN  /\ Len(gates) = kept + groups_count * Copies
            /\ ret = Len(gates)
            /\ SubSeq(gates, 1, kept) = SubSeq(base, 1, kept)
            /\ \A j \in 1..groups_count :
                 \E w \in RandomGates :
                   \A k \in 1..Copies : gates[kept + (j - 1) * Copies + k] = w

\* one gate of two is dropped and two groups are asked for: each group
\* gets max(1, 0) = 1 copy
C3_Witness ==
    /\ pc = "ret run_with_coherency"
    /\ Len(base) = 2
    /\ percentage = 5
    /\ groups_count = 2
    /\ Len(gates) = 3

\* C4: each trial adds exactly one value to the histogram: after k
\* completed trials the bucket counts sum to k, and after the loop to the
\* number of trials run (CONFIG_COUNT); the emitted file holds that sum.
C4_HistogramCount ==
    /\ BagCardinality(histogram) = trial
    /\ pc \in {"histogram_to_file", "to_writer_pretty", "Ok", "Err", "exit"}
           => (BagCardinality(histogram) = CONFIG_COUNT)
    /\ \A f \in files : f[2] = "complete" => f[3] = CONFIG_COUNT

\* the trial loop of the second scenario has ended
C4_Witness ==
    /\ pc = "histogram_to_file"
    /\ scenario = 1
    /\ trial = CONFIG_COUNT
    /\ BagCardinality(histogram) = CONFIG_COUNT

\* the sample window [10 s, 20 s) stepped by 0.5 s
ExampleWindow == [k \in 1..20 |-> Sec(10) + (k - 1) * Step]

\* C5 as stated: on 4 gates (5 s, 5 s, 0) and the window [10, 20) stepped
\* by 0.5, every sample point has the sum 4 and evaluate_max_on_range
\* returns 4.
C5_Original ==
    (pc = "ret evaluate_max_on_range" /\ gates = ExamplePopulation) =>
        /\ points = ExampleWindow
        /\ \A k \in 1..Len(points) : sum_at(gates, points[k]) = 4
        /\ ret = 4

\* C5 amended: the sample points in [10, 15) have the sum 4, those in
\* [15, 20) have the sum 0, and evaluate_max_on_range returns 4.
C5_Amended ==
    (pc = "ret evaluate_max_on_range" /\ gates = ExamplePopulation) =>
        /\ points = ExampleWindow
        /\ \A k \in 1..Len(points) :
             sum_at(gates, points[k]) = IF points[k] < Sec(15) THEN 4 ELSE 0
        /\ ret = 4

\* evaluate_max_on_range has returned on the example population
C5_Witness ==
    /\ pc = "ret evaluate_max_on_range"
    /\ gates = ExamplePopulation
    /\ points = ExampleWindow
    /\ ret = 4

\* C6 as stated: a scenario that fails has not run at all: no trial was
\* performed and nothing was added to the histogram.
C6_Original ==
    (pc = "Err") => (trial = 0 /\ histogram = EmptyBag)

\* C6 amended: a scenario fails only in histogram_to_file, after all
\* CONFIG_COUNT trials ran and filled the histogram; then no complete file
\* exists for it, no later scenario has run and the run has ended; and a
\* scenario that returns Ok has emitted its complete histogram, as did
\* every scenario before the current one.
C6_Amended ==
    /\ (pc = "Err") =>
          /\ trial = CONFIG_COUNT
          /\ BagCardinality(histogram) = CONFIG_COUNT
          /\ \A f \in files : f[1] = scenario => f[2] = "created"
          /\ \A f \in files : f[1] <= scenario
          /\ ~ENABLED Next
    /\ (pc = "Ok") => (<<scenario, "complete", CONFIG_COUNT>> \in files)
    /\ \A s \in 0..(scenario - 1) : <<s, "complete", CONFIG_COUNT>> \in files

\* the third scenario ran all its trials, created its file and failed to
\* write it
C6_Witness ==
    /\ pc = "Err"
    /\ scenario = 2
    /\ trial = CONFIG_COUNT
    /\ <<2, "created", 0>> \in files

\* C7: for an empty population max_period is 0 and evaluate_max_on_range is
\* 0 on any sample point set; run_gates on an empty population has an empty
\* sample window, records the peak 0 in every trial and runs all its trials:
\* only the output step can fail.
C7_EmptyPopulation ==
    /\ max_period(<<>>) = 0
    /\ \A pts \in FnPointSets : evaluate_max_on_range(<<>>, pts) = 0
    /\ (gates = <<>> /\ pc # "run_gates") =>
          /\ maxPeriod = 0
          /\ points = <<>>
          /\ pc = "histogram.add" => max_val = 0
          /\ BagToSet(histogram) \subseteq {0}
          /\ pc = "Err" => trial = CONFIG_COUNT
          /\ pc \notin {"Ok", "Err"} => ENABLED RunGatesNext

\* run_gates on the empty population returned Ok
C7_Witness ==
    /\ gates = <<>>
    /\ pc = "Ok"
    /\ BagToSet(histogram) = {0}
    /\ <<0, "complete", CONFIG_COUNT>> \in files

\* C8: the phases of a trial exclude each other: start_time is written only
\* while no evaluation task exists, the tasks start only after every gate
\* was rewritten, they end only when all sample points are folded into one
\* result, and the peak is recorded only when no task exists.
C8_ExclusivePhases ==
    [][ /\ (gates' # gates) => (segs = <<>> /\ segs' = <<>>)
        /\ (segs = <<>> /\ segs' # <<>>) => (idx = Len(gates))
        /\ (segs # <<>> /\ segs' = <<>>) =>
              /\ Len(segs) = 1
              /\ segs[1].lo = 1
              /\ segs[1].hi = Len(points) + 1
              /\ segs[1].pos = segs[1].hi
        /\ (histogram' # histogram) => (segs = <<>> /\ segs' = <<>>)
        /\ (segs # <<>>) => (pc = "evaluate_max_on_range")
      ]_vars

\* two evaluation tasks of the second trial are both half done
C8_Witness ==
    /\ pc = "evaluate_max_on_range"
    /\ trial = 1
    /\ Len(segs) = 2
    /\ \A i \in 1..2 : segs[i].lo < segs[i].pos /\ segs[i].pos < segs[i].hi

\* the maximum of the per-point sums, taken sequentially
SequentialPeak ==
    IF points = <<>> THEN 0
    ELSE LET sums == { sum_at(gates, points[k]) : k \in 1..Len(points) }
         IN  CHOOSE m \in sums : \A x \in sums : x <= m

\* C9: whatever the order in which the per-point sums are computed and the
\* order and grouping in which the partial maxima are reduced, the peak
\* evaluate_max_on_range returns is the maximum of the per-point sums.
C9_OrderIndependent ==
    (pc = "histogram.add") => (max_val = SequentialPeak)

\* two complete tasks wait to be reduced, the left one holding the larger
\* partial maximum
C9_Witness ==
    /\ pc = "evaluate_max_on_range"
    /\ Len(segs) = 2
    /\ \A i \in 1..2 : segs[i].pos = segs[i].hi /\ segs[i].acc # <<>>
    /\ segs[1].acc[1] > segs[2].acc[1]

\* a population without its start times
Shape(gs) ==
    [k \in 1..Len(gs) |->
        <<gs[k].high_duration, gs[k].low_duration>>]

\* the trial loop is running or has ended
InTrials == pc \notin {"run_gates", "main"}

\* C10: re-randomization changes only start_time: the size and order of the
\* population and every high_duration and low_duration stay as they were
\* before the first trial, so max_period is unchanged and the sample points
\* computed once are, in every trial, the window [max_period, 2*max_period)
\* stepped by 0.5, lower bound included and upper bound excluded.
C10_OnlyStartTime ==
    [][ /\ Shape(gates') = Shape(gates)
        /\ InTrials' =>
              /\ maxPeriod' = max_period(gates')
              /\ \A k \in 1..Len(points') :
                   /\ points'[k] = maxPeriod' + (k - 1) * Step
                   /\ points'[k] < 2 * maxPeriod'
              /\ maxPeriod' + Len(points') * Step >= 2 * maxPeriod'
        /\ InTrials => (points' = points /\ maxPeriod' = maxPeriod)
      ]_vars

\* all trials ran on two gates and a start time was rewritten
C10_Witness ==
    /\ pc = "histogram_to_file"
    /\ trial = CONFIG_COUNT
    /\ Len(gates) = 2
    /\ \E k \in 1..2 : gates[k].start_time # 0

====
